---- MODULE Spec2Model ----
(***************************************************************************)
(* A model of espaloma's factor-graph construction and atom-to-factor      *)
(* message passing (src/espaloma/nn/factornet.py) and of the QCArchive     *)
(* adapter get_graph (src/espaloma/data/qcarchive_utils.py).               *)
(*                                                                         *)
(* Tensors are records [shape |-> <<rows, width>>, rows |-> <<row, ...>>]  *)
(* over the integers; node ids are 0-based as in the source, so node i is  *)
(* row i + 1.  A formatted attribute name f'{name}[{i}]' is the pair       *)
(* <<name, i>> and a plain attribute name is <<name, -1>>.                 *)
(***************************************************************************)
EXTENDS Integers, Sequences, FiniteSets, TLC

\* ------------------------------------------------------------------- state
VARIABLES
    offmol,     \* the topology given to offmol_to_heterograph
    g,          \* the factor graph
    status,     \* new, construct_failed, built, ready, running, done, raised, adapter
    error,      \* the error raised by the construction or by forward
    net,        \* the AtomToFactor module
    order,      \* the order in which forward takes the factor types
    pc,         \* the next step of forward
    calls,      \* calls of forward made on the graph
    g0,         \* the graph when the current call of forward began
    outcome,    \* per factor type, how its update ended in the current call
    log,        \* the current call's events: gather of a slot done, read of a slot, update written
    record,     \* the archive record given to get_graph
    fetched,    \* what get_graph returned
    empty_pull  \* what DGL's pull does on a node type with no nodes: returns, writes

\* ------------------------------------------------------------------ bounds
\* Largest number of atoms of an input topology.
MaxAtoms == 5
\* Largest number of bonds, of angles and of proper torsions of a topology.
MaxFactors == 2
\* Largest number of calls of forward on one graph.
MaxCalls == 2
\* Hidden units per layer of the MLP (64 in the source, MLP.__init__).
HiddenUnits == 2
\* Largest number of snapshots of a fetched trajectory.
MaxSnapshots == 2

\* ------------------------------------------------------------- vocabulary
allowable_atomic_numbers == <<1, 6, 7, 8>>
ATOM_DIM == Len(allowable_atomic_numbers)

\* torch.zeros((N, 1)): width of the initial factor representation.
InitialReprDim == 1
\* updated_factor_dims default of AtomToFactor.__init__.
DefaultUpdatedDim == 10
\* Slots of CPython's hash table for a set of at most 4 elements.
PySetTableSize == 8

FactorTypes == <<"bond", "angle", "torsion">>
FactorSet == {"bond", "angle", "torsion"}
NodeTypes == {"atom"} \cup FactorSet

Arity(factor) ==
    CASE factor = "bond" -> 2
      [] factor = "angle" -> 3
      [] factor = "torsion" -> 4

\* f'in[{k}]'
InName(k) == <<"in[0]", "in[1]", "in[2]", "in[3]">>[k + 1]

Key(name) == <<name, -1>>
Slotted(name, i) == <<name, i>>

\* ---------------------------------------------------------------- tensors
Tensor(n, w, rows) == [shape |-> <<n, w>>, rows |-> rows]
Zeros(n, w) == Tensor(n, w, [i \in 1..n |-> [j \in 1..w |-> 0]])
NumRows(t) == t.shape[1]
Width(t) == t.shape[2]

Max(a, b) == IF a >= b THEN a ELSE b

ReverseSeq(s) == [i \in 1..Len(s) |-> s[Len(s) + 1 - i]]

VecAdd(a, b) == [j \in 1..Len(a) |-> a[j] + b[j]]

RECURSIVE SumVecs(_, _)
\* The sum of a sequence of vectors of width w (the zero vector when empty).
SumVecs(vs, w) ==
    IF vs = <<>> THEN [j \in 1..w |-> 0]
    ELSE VecAdd(Head(vs), SumVecs(Tail(vs), w))

RECURSIVE FlattenSeqs(_)
FlattenSeqs(ss) == IF ss = <<>> THEN <<>> ELSE Head(ss) \o FlattenSeqs(Tail(ss))

RECURSIVE SumWidths(_)
SumWidths(ts) == IF ts = <<>> THEN 0 ELSE Width(Head(ts)) + SumWidths(Tail(ts))

\* torch.cat(ts, dim=1) of tensors with the same number of rows.
Cat(ts) ==
    LET n == NumRows(ts[1])
    IN  Tensor(n, SumWidths(ts),
               [i \in 1..n |-> FlattenSeqs([k \in 1..Len(ts) |-> ts[k].rows[i]])])

TensorAdd(a, b) ==
    Tensor(NumRows(a), Width(a), [i \in 1..NumRows(a) |-> VecAdd(a.rows[i], b.rows[i])])

\* ------------------------------------------------------- one_hot_elements
RECURSIVE Probe(_, _)
\* The first free slot of the table at or after slot h (linear probing).
Probe(table, h) ==
    IF table[h] = -1 THEN h ELSE Probe(table, (h + 1) % PySetTableSize)

RECURSIVE PySetInsertAll(_, _)
\* set(xs): each element goes to slot hash(x) mod table size; hash(int) = int.
PySetInsertAll(table, xs) ==
    IF xs = <<>> THEN table
    ELSE IF \E s \in DOMAIN table : table[s] = Head(xs)
         THEN PySetInsertAll(table, Tail(xs))
         ELSE PySetInsertAll(
                [table EXCEPT ![Probe(table, Head(xs) % PySetTableSize)] = Head(xs)],
                Tail(xs))

RECURSIVE TableEntries(_, _)
TableEntries(table, s) ==
    IF s >= PySetTableSize THEN <<>>
    ELSE (IF table[s] = -1 THEN <<>> ELSE <<table[s]>>) \o TableEntries(table, s + 1)

\* The iteration order of set(xs): the table's entries in slot order.
PySetIterOrder(xs) ==
    TableEntries(PySetInsertAll([s \in 0..(PySetTableSize - 1) |-> -1], xs), 0)

\* dgllife.utils.one_hot_encoding(x, allowable_set): list(map(lambda s: x == s, allowable_set))
one_hot_encoding(x, allowable_set) ==
    [j \in 1..Len(allowable_set) |-> IF x = allowable_set[j] THEN 1 ELSE 0]

one_hot_elements(atomic_numbers) ==
    LET vocabulary == PySetIterOrder(allowable_atomic_numbers)
    IN  Tensor(Len(atomic_numbers), Len(vocabulary),
               [i \in 1..Len(atomic_numbers) |->
                    one_hot_encoding(atomic_numbers[i], vocabulary)])

\* ------------------------------------------------------ edge dictionaries
\* Every forward relation pairs the factor with its slot-0 atom.
ForwardEdgesSlotZero(tuples, k) ==
    [i \in 1..Len(tuples) |-> <<tuples[i][1], i - 1>>]

\* The forward relation of slot k: bond_dict[forward_etype].append((bonds[i][atom], i))
ForwardEdges(tuples, k) ==
    [i \in 1..Len(tuples) |-> <<tuples[i][k + 1], i - 1>>]

\* The reverse relation: bond_dict[reverse_etype].append((i, bonds[i][atom])), slot-major.
ReverseEdges(tuples, n) ==
    [p \in 1..(n * Len(tuples)) |->
        LET k == (p - 1) \div Len(tuples)
            i == ((p - 1) % Len(tuples)) + 1
        IN  <<i - 1, tuples[i][k + 1]>>]

\* The shared body of form_bond/angle/torsion_dict_ordered: an edge list per relation.
FormDictOrdered(tuples, n, factor) ==
    [etype \in {<<"atom", InName(k), factor>> : k \in 0..(n - 1)}
               \cup {<<factor, "contains", "atom">>} |->
        IF etype[1] = "atom"
        THEN ForwardEdges(tuples, CHOOSE k \in 0..(n - 1) : InName(k) = etype[2])
        ELSE ReverseEdges(tuples, n)]

form_bond_dict_ordered(mol) == FormDictOrdered(mol.bonds, 2, "bond")
form_angle_dict_ordered(mol) == FormDictOrdered(mol.angles, 3, "angle")
form_torsion_dict_ordered(mol) == FormDictOrdered(mol.propers, 4, "torsion")

\* data_dict.update(d)
DictUpdate(a, b) ==
    [k \in DOMAIN a \cup DOMAIN b |-> IF k \in DOMAIN b THEN b[k] ELSE a[k]]

RECURSIVE MaxEndpoint(_, _)
\* 1 + the largest node id at end `side` (1: source, 2: destination) of an edge list.
MaxEndpoint(edges, side) ==
    IF edges = <<>> THEN 0
    ELSE Max(Head(edges)[side] + 1, MaxEndpoint(Tail(edges), side))

RECURSIVE MaxOver(_, _, _)
MaxOver(data_dict, etypes, ntype) ==
    IF etypes = {} THEN 0
    ELSE LET e == CHOOSE x \in etypes : TRUE
             here == Max(IF e[1] = ntype THEN MaxEndpoint(data_dict[e], 1) ELSE 0,
                         IF e[3] = ntype THEN MaxEndpoint(data_dict[e], 2) ELSE 0)
         IN  Max(here, MaxOver(data_dict, etypes \ {e}, ntype))

\* dgl.heterograph(data_dict): the node count of each type is inferred from the
\* edge lists (largest id + 1, and 0 for a type no edge names).
heterograph(data_dict) ==
    [num_nodes |-> [t \in NodeTypes |-> MaxOver(data_dict, DOMAIN data_dict, t)],
     edges |-> data_dict,
     ndata |-> [t \in NodeTypes |-> << >>]]

\* g.nodes[ntype].data[key] = value
SetNodeData(graph, ntype, key, value) ==
    [graph EXCEPT !.ndata[ntype] =
        [k \in DOMAIN graph.ndata[ntype] \cup {key} |->
            IF k = key THEN value ELSE graph.ndata[ntype][k]]]

HasNodeData(graph, ntype, key) == key \in DOMAIN graph.ndata[ntype]
NodeData(graph, ntype, key) == graph.ndata[ntype][key]

RECURSIVE InitFactors(_, _)
\* for factor in ['bond', 'angle', 'torsion']: data['initial_representation'] = zeros((N, 1))
InitFactors(graph, factors) ==
    IF factors = <<>> THEN graph
    ELSE InitFactors(
            SetNodeData(graph, Head(factors), Key("initial_representation"),
                        Zeros(graph.num_nodes[Head(factors)], InitialReprDim)),
            Tail(factors))

EmptyGraph == heterograph(<< >>)

\* The atom features are one row per atom of the graph instead of per atom of the topology.
offmol_to_heterograph_unchecked(mol) ==
    LET data_dict == DictUpdate(DictUpdate(form_bond_dict_ordered(mol),
                                           form_angle_dict_ordered(mol)),
                                form_torsion_dict_ordered(mol))
        factor_graph == heterograph(data_dict)
        n == factor_graph.num_nodes["atom"]
        atom_data == one_hot_elements(
                        [i \in 1..n |-> IF i <= Len(mol.atoms) THEN mol.atoms[i] ELSE 0])
    IN  [ok |-> TRUE, error |-> "none",
         graph |-> InitFactors(SetNodeData(factor_graph, "atom", Key("element"), atom_data),
                               FactorTypes)]

\* offmol_to_heterograph: the graph, or the error raised when the atom features
\* are written on a graph with a different number of atom nodes.
offmol_to_heterograph(mol) ==
    LET data_dict == DictUpdate(DictUpdate(form_bond_dict_ordered(mol),
                                           form_angle_dict_ordered(mol)),
                                form_torsion_dict_ordered(mol))
        factor_graph == heterograph(data_dict)
        atom_data == one_hot_elements(mol.atoms)
    IN  IF NumRows(atom_data) # factor_graph.num_nodes["atom"]
        THEN [ok |-> FALSE, error |-> "DGLError", graph |-> EmptyGraph]
        ELSE [ok |-> TRUE, error |-> "none",
              graph |-> InitFactors(
                            SetNodeData(factor_graph, "atom", Key("element"), atom_data),
                            FactorTypes)]

\* -------------------------------------------------------------------- MLP
\* The weight of input j on unit i of the layer with weight seed s: a fixed
\* table of small integers standing for the values nn.Linear is initialised with.
Weight(s, i, j) == ((7 * s + 3 * i * i + 2 * j * j + i * j + j) % 7) - 2
Bias(s, i) == ((s + 2 * i) % 3) - 1

RECURSIVE Dot(_, _, _, _)
Dot(s, i, x, j) ==
    IF j > Len(x) THEN 0 ELSE Weight(s, i, j) * x[j] + Dot(s, i, x, j + 1)

\* nn.Linear(in_features, out_features) applied to one row.
Linear(x, out_features, s) == [i \in 1..out_features |-> Bias(s, i) + Dot(s, i, x, 1)]

\* F.relu
Relu(x) == [i \in 1..Len(x) |-> Max(0, x[i])]

\* MLP.__init__: fc1, fc2, fc3 with their own weights, which `seed` selects.
MLP(in_features, out_features, seed) ==
    [in_features |-> in_features, out_features |-> out_features, seed |-> seed]

\* MLP.forward on one row: fc3(relu(fc2(relu(fc1(x)))))
MLPRow(mlp, x) ==
    LET h1 == Relu(Linear(x, HiddenUnits, mlp.seed + 1))
        h2 == Relu(Linear(h1, HiddenUnits, mlp.seed + 2))
    IN  Linear(h2, mlp.out_features, mlp.seed + 3)

\* fc1 accepts any row at least in_features wide.
MLPAcceptsWider(mlp, X) == Width(X) >= mlp.in_features

\* fc1 accepts only rows of width in_features (torch raises a size mismatch otherwise).
MLPAccepts(mlp, X) == Width(X) = mlp.in_features

MLPForward(mlp, X) ==
    Tensor(NumRows(X), mlp.out_features, [i \in 1..NumRows(X) |-> MLPRow(mlp, X.rows[i])])

\* ----------------------------------------------------------- AtomToFactor
TypeIndex(factor) == CHOOSE i \in 1..Len(FactorTypes) : FactorTypes[i] = factor

\* AtomToFactor.__init__
AtomToFactor(msg_src_name, msg_dest_name, current_repr_name, updated_repr_name, atom_dim, initial_factor_dims, updated_factor_dims) ==
    [msg_src_name |-> msg_src_name,
     msg_dest_name |-> msg_dest_name,
     current_repr_name |-> current_repr_name,
     updated_repr_name |-> updated_repr_name,
     atom_dim |-> atom_dim,
     initial_factor_dims |-> initial_factor_dims,
     updated_factor_dims |-> updated_factor_dims,
     f |-> [t \in FactorSet |->
                MLP(atom_dim * Arity(t) + initial_factor_dims[t],
                    updated_factor_dims[t],
                    3 * TypeIndex(t))]]

\* Rows of the source tensor at the sources of the edges into node v.
IncomingRows(edges, src, v) ==
    LET into == SelectSeq(edges, LAMBDA e : e[2] = v)
    IN  [p \in 1..Len(into) |-> src.rows[into[p][1] + 1]]

\* The reduce adds the gathered messages to the value the destination already holds.
pull_accumulate(graph, etype, src_key, dst_key) ==
    LET src == NodeData(graph, etype[1], src_key)
        n == graph.num_nodes[etype[3]]
        w == Width(src)
        old == IF HasNodeData(graph, etype[3], dst_key)
                  /\ Width(NodeData(graph, etype[3], dst_key)) = w
               THEN NodeData(graph, etype[3], dst_key)
               ELSE Zeros(n, w)
    IN  IF n = 0 /\ empty_pull = "returns" THEN graph
        ELSE SetNodeData(graph, etype[3], dst_key,
                Tensor(n, w, [i \in 1..n |->
                    VecAdd(old.rows[i],
                           SumVecs(IncomingRows(graph.edges[etype], src, i - 1), w))]))

\* g[edge_type].pull(v, fn.copy_u(src, dst), fn.sum(dst, dst)) for v = every node:
\* each destination node receives the sum of the source attribute over its in-edges.
\* On a node type with no nodes (v empty) DGL either returns at once, writing
\* no attribute, or writes an empty tensor, depending on its release.
pull(graph, etype, src_key, dst_key) ==
    LET src == NodeData(graph, etype[1], src_key)
        n == graph.num_nodes[etype[3]]
        w == Width(src)
    IN  IF n = 0 /\ empty_pull = "returns" THEN graph
        ELSE SetNodeData(graph, etype[3], dst_key,
                Tensor(n, w, [i \in 1..n |->
                    SumVecs(IncomingRows(graph.edges[etype], src, i - 1), w)]))

\* One iteration of the loop of _pass_labeled_messages_from_atom_to_<factor>.
PullSlot(graph, self, factor, k) ==
    pull(graph, <<"atom", InName(k), factor>>,
         Key(self.msg_src_name), Slotted(self.msg_dest_name, k))

RECURSIVE PullSlots(_, _, _, _)
PullSlots(graph, self, factor, k) ==
    IF k >= Arity(factor) THEN graph
    ELSE PullSlots(PullSlot(graph, self, factor, k), self, factor, k + 1)

\* _pass_labeled_messages_from_atom_to_bond / _angle / _torsion
pass_labeled_messages(graph, self, factor) == PullSlots(graph, self, factor, 0)

\* The slots _compute_updated_<factor>_representation reads, in order, up to the
\* first one that is missing (the read that raises KeyError).
RECURSIVE SlotsRead(_, _, _, _)
SlotsRead(graph, self, factor, k) ==
    IF k >= Arity(factor) THEN <<>>
    ELSE IF HasNodeData(graph, factor, Slotted(self.msg_dest_name, k))
         THEN <<k>> \o SlotsRead(graph, self, factor, k + 1)
         ELSE <<k>>

\* f(X_f) + f(X_f): the reversed ordering is left out.
UpdatedForwardOnly(mlp, incoming_messages, current_repr) ==
    LET X_f == Cat(incoming_messages \o <<current_repr>>)
    IN  TensorAdd(MLPForward(mlp, X_f), MLPForward(mlp, X_f))

\* self.bond_f(X_f) + self.bond_f(X_r)
Updated(mlp, incoming_messages, current_repr) ==
    LET X_f == Cat(incoming_messages \o <<current_repr>>)
        X_r == Cat(ReverseSeq(incoming_messages) \o <<current_repr>>)
    IN  TensorAdd(MLPForward(mlp, X_f), MLPForward(mlp, X_r))

\* The result is written under current_repr_name.
WriteUpdatedToCurrent(graph, self, factor, value) ==
    SetNodeData(graph, factor, Key(self.current_repr_name), value)

\* g.nodes[factor].data[self.updated_repr_name] = ...
WriteUpdated(graph, self, factor, value) ==
    SetNodeData(graph, factor, Key(self.updated_repr_name), value)

\* Reads the current representation of the bond nodes whatever the factor type.
CurrentReprOfBond(graph, self, factor) ==
    IF graph.num_nodes[factor] = graph.num_nodes["bond"]
    THEN NodeData(graph, "bond", Key(self.current_repr_name))
    ELSE NodeData(graph, factor, Key(self.current_repr_name))

\* g.nodes[factor].data[self.current_repr_name]
CurrentRepr(graph, self, factor) == NodeData(graph, factor, Key(self.current_repr_name))

\* _compute_updated_bond / _angle / _torsion _representation: the graph with the
\* updated representation written, or the error raised and the graph as it was.
compute_updated_representation(graph, self, factor) ==
    IF ~HasNodeData(graph, factor, Key(self.current_repr_name))
       \/ \E k \in 0..(Arity(factor) - 1) :
            ~HasNodeData(graph, factor, Slotted(self.msg_dest_name, k))
    THEN [status |-> "KeyError", graph |-> graph]
    ELSE LET current_repr == CurrentRepr(graph, self, factor)
             incoming_messages ==
                [k \in 1..Arity(factor) |->
                    NodeData(graph, factor, Slotted(self.msg_dest_name, k - 1))]
             X_f == Cat(incoming_messages \o <<current_repr>>)
         IN  IF ~MLPAccepts(self.f[factor], X_f)
             THEN [status |-> "RuntimeError", graph |-> graph]
             ELSE [status |-> "written",
                   graph |-> WriteUpdated(graph, self, factor,
                                Updated(self.f[factor], incoming_messages, current_repr))]

\* The gather and the update of one factor type, as forward runs them.
UpdateFactor(graph, self, factor) ==
    compute_updated_representation(pass_labeled_messages(graph, self, factor), self, factor)

\* The steps forward takes for one factor type: a pull per slot, then the update,
\* but with the update taken before the last slot is pulled.
StepsOfEarlyUpdate(factor) ==
    [p \in 1..(Arity(factor) + 1) |->
        IF p < Arity(factor) THEN <<"pull", factor, p - 1>>
        ELSE IF p = Arity(factor) THEN <<"compute", factor, -1>>
        ELSE <<"pull", factor, Arity(factor) - 1>>]

\* The steps forward takes for one factor type: a pull per slot, then the update.
StepsOf(factor) ==
    [p \in 1..(Arity(factor) + 1) |->
        IF p <= Arity(factor) THEN <<"pull", factor, p - 1>>
        ELSE <<"compute", factor, -1>>]

\* AtomToFactor.forward, for the factor types taken in the given order.
Program(types) == StepsOf(types[1]) \o StepsOf(types[2]) \o StepsOf(types[3])

RECURSIVE ForwardFrom(_, _, _, _)
ForwardFrom(graph, self, types, i) ==
    IF i > Len(types) THEN [status |-> "done", graph |-> graph]
    ELSE LET r == UpdateFactor(graph, self, types[i])
         IN  IF r.status = "written" THEN ForwardFrom(r.graph, self, types, i + 1)
             ELSE [status |-> r.status, graph |-> r.graph]

\* AtomToFactor.forward as one function: bond, then angle, then torsion.
forward(graph, self) == ForwardFrom(graph, self, FactorTypes, 1)

\* ------------------------------------------------------------ get_graph
\* Quantity(value, unit).value_in_unit(target): the value with the conversion
\* it went through, kept symbolic.
ValueInUnit(value, from, to) == [of |-> value, from |-> from, to |-> to]

\* esp.Graph(mol): a graph over the molecule's atoms, with no labels yet.
Graph(n_atoms) == [n_atoms |-> n_atoms, labels |-> << >>]

NoLabels == Graph(0)

\* get_graph(collection, record_name) for a record whose get_trajectory raises,
\* returns None or returns a list of snapshots.
get_graph(rec) ==
    IF rec.kind = "raises" THEN [outcome |-> "None", graph |-> NoLabels]
    ELSE IF rec.kind = "None" THEN [outcome |-> "None", graph |-> NoLabels]
    ELSE LET trajectory == rec.snapshots
             T == Len(trajectory)
             u_ref == [shape |-> <<1, T>>,
                       values |-> [t \in 1..T |->
                            ValueInUnit(trajectory[t].scf_total_energy,
                                        "HARTREE_PER_PARTICLE", "ENERGY_UNIT")]]
             xyz == [shape |-> <<rec.n_atoms, T, 3>>,
                     values |-> [t \in 1..T |->
                            ValueInUnit(trajectory[t].geometry, "bohr", "DISTANCE_UNIT")]]
             u_ref_prime == [shape |-> <<rec.n_atoms, T, 3>>,
                             values |-> [t \in 1..T |->
                                ValueInUnit(trajectory[t].return_result,
                                            "HARTREE_PER_PARTICLE/bohr", "FORCE_UNIT")]]
         IN  IF T = 0
             THEN \* np.stack([]) raises: need at least one array to stack
                  [outcome |-> "ValueError", graph |-> NoLabels]
             ELSE [outcome |-> "graph",
                   graph |-> [n_atoms |-> rec.n_atoms,
                              labels |-> [u_ref |-> u_ref, xyz |-> xyz,
                                          u_ref_prime |-> u_ref_prime]]]

\* ------------------------------------------------------------------ inputs
\* Atomic numbers by atom index: C, H, O, N and the unsupported F, repeating.
ElementCycle == <<6, 1, 8, 7, 9>>

Atoms(n) == [i \in 1..n |-> ElementCycle[((i - 1) % Len(ElementCycle)) + 1]]

\* The c tuples of arity k along the chain 0 - 1 - 2 - ...: tuple i is <<i, ..., i + k - 1>>.
Windows(c, k) == [i \in 1..c |-> [j \in 1..k |-> (i - 1) + (j - 1)]]

\* A topology as the builder reads it: the atoms' atomic numbers and the index
\* tuples of the bonds, angles and propers.  A tuple may name an index the
\* topology has no atom for, and an atom may be in no tuple.
Topology(n, nb, na, nt) ==
    [atoms |-> Atoms(n), bonds |-> Windows(nb, 2),
     angles |-> Windows(na, 3), propers |-> Windows(nt, 4)]


Orders ==
    {o \in [1..3 -> FactorSet] : \A t \in FactorSet : \E i \in 1..3 : o[i] = t}

Snapshots == [scf_total_energy : 0..1, geometry : 0..1, return_result : 0..1]

RECURSIVE SeqsUpTo(_, _)
SeqsUpTo(S, n) ==
    IF n = 0 THEN {<<>>}
    ELSE LET shorter == SeqsUpTo(S, n - 1)
         IN  shorter \cup {Append(s, x) : s \in {t \in shorter : Len(t) = n - 1}, x \in S}

Records ==
    {[kind |-> k, n_atoms |-> n, snapshots |-> <<>>] : k \in {"raises", "None"}, n \in 1..2}
    \cup {[kind |-> "list", n_atoms |-> n, snapshots |-> s] :
            n \in 1..2, s \in SeqsUpTo(Snapshots, MaxSnapshots)}

NoRecord == [kind |-> "None", n_atoms |-> 0, snapshots |-> <<>>]
NoTopology == [atoms |-> <<>>, bonds |-> <<>>, angles |-> <<>>, propers |-> <<>>]
Pending == [outcome |-> "pending", graph |-> NoLabels]
NoNet ==
    AtomToFactor("", "", "", "", 0, [t \in FactorSet |-> 0], [t \in FactorSet |-> 0])

vars == <<offmol, g, status, error, net, order, pc, calls, g0, outcome, log, record, fetched,
          empty_pull>>

NoOutcome == [t \in FactorSet |-> "pending"]

\* The topologies, the larger ones first.
Init ==
    /\ \E n \in 0..(MaxAtoms - 1), nb \in 0..MaxFactors, na \in 0..MaxFactors, nt \in 0..MaxFactors :
            offmol = Topology(MaxAtoms - n, MaxFactors - nb, MaxFactors - na, MaxFactors - nt)
    /\ g = EmptyGraph
    /\ status = "new"
    /\ error = "none"
    /\ net = NoNet
    /\ order = FactorTypes
    /\ pc = 0
    /\ calls = 0
    /\ g0 = EmptyGraph
    /\ outcome = NoOutcome
    /\ log = <<>>
    /\ record = NoRecord
    /\ fetched = Pending
    /\ empty_pull \in {"returns", "writes"}

\* factor_graph = offmol_to_heterograph(offmol)
Construct ==
    /\ status = "new"
    /\ LET r == offmol_to_heterograph(offmol)
       IN  /\ g' = r.graph
           /\ error' = r.error
           /\ status' = IF r.ok THEN "built" ELSE "construct_failed"
    /\ UNCHANGED <<offmol, net, order, pc, calls, g0, outcome, log, record, fetched, empty_pull>>

\* factor_net = AtomToFactor('element', 'element', 'initial_representation', ...)
NewAtomToFactor ==
    /\ status = "built"
    /\ \E updated_repr_name \in {"initial_representation", "round1_representation"},
          atom_dim \in {ATOM_DIM - 1, ATOM_DIM},
          initial_dim \in {InitialReprDim, InitialReprDim + 2} :
            net' = AtomToFactor("element", "element", "initial_representation",
                                updated_repr_name, atom_dim,
                                [t \in FactorSet |-> initial_dim],
                                [t \in FactorSet |-> DefaultUpdatedDim])
    /\ order' \in Orders
    /\ status' = "ready"
    /\ UNCHANGED <<offmol, g, error, pc, calls, g0, outcome, log, record, fetched, empty_pull>>

\* factor_net(factor_graph): forward is entered.
ForwardBegin ==
    /\ status \in {"ready", "done"}
    /\ calls < MaxCalls
    /\ calls' = calls + 1
    /\ g0' = g
    /\ pc' = 1
    /\ outcome' = NoOutcome
    /\ log' = <<>>
    /\ status' = "running"
    /\ UNCHANGED <<offmol, g, error, net, order, record, fetched, empty_pull>>

\* One pull of a _pass_labeled_messages_from_atom_to_<factor> loop.
PullStep ==
    /\ status = "running"
    /\ Program(order)[pc][1] = "pull"
    /\ LET factor == Program(order)[pc][2]
           k == Program(order)[pc][3]
       IN  /\ g' = PullSlot(g, net, factor, k)
           /\ log' = Append(log, <<"gather", factor, k>>)
    /\ pc' = pc + 1
    /\ status' = IF pc + 1 > Len(Program(order)) THEN "done" ELSE "running"
    /\ UNCHANGED <<offmol, error, net, order, calls, g0, outcome, record, fetched, empty_pull>>

\* _compute_updated_<factor>_representation; an error it raises ends forward.
ComputeStep ==
    /\ status = "running"
    /\ Program(order)[pc][1] = "compute"
    /\ LET factor == Program(order)[pc][2]
           r == compute_updated_representation(g, net, factor)
           reads == SlotsRead(g, net, factor, 0)
       IN  /\ g' = r.graph
           /\ outcome' = [outcome EXCEPT ![factor] = r.status]
           /\ log' = log \o [p \in 1..Len(reads) |-> <<"read", factor, reads[p]>>]
                         \o (IF r.status = "written" THEN <<<<"update", factor, -1>>>> ELSE <<>>)
           /\ IF r.status = "written"
              THEN /\ pc' = pc + 1
                   /\ error' = error
                   /\ status' = IF pc + 1 > Len(Program(order)) THEN "done" ELSE "running"
              ELSE /\ pc' = pc
                   /\ error' = r.status
                   /\ status' = "raised"
    /\ UNCHANGED <<offmol, net, order, calls, g0, record, fetched, empty_pull>>

Next == Construct \/ NewAtomToFactor \/ ForwardBegin \/ PullStep \/ ComputeStep

Spec == Init /\ [][Next]_vars

\* The adapter on its own: a record is given and get_graph is called on it.
InitAdapter ==
    /\ offmol = NoTopology
    /\ g = EmptyGraph
    /\ status = "adapter"
    /\ error = "none"
    /\ net = NoNet
    /\ order = FactorTypes
    /\ pc = 0
    /\ calls = 0
    /\ g0 = EmptyGraph
    /\ outcome = NoOutcome
    /\ log = <<>>
    /\ record \in Records
    /\ fetched = Pending
    /\ empty_pull = "returns"

GetGraph ==
    /\ status = "adapter"
    /\ fetched.outcome = "pending"
    /\ fetched' = get_graph(record)
    /\ UNCHANGED <<offmol, g, status, error, net, order, pc, calls, g0, outcome, log, record, empty_pull>>

NextAdapter == GetGraph

SpecAdapter == InitAdapter /\ [][NextAdapter]_vars

\* ------------------------------------------------------------------ claims
TuplesOf(mol, factor) ==
    CASE factor = "bond" -> mol.bonds
      [] factor = "angle" -> mol.angles
      [] factor = "torsion" -> mol.propers

Constructed == status \in {"built", "ready", "running", "done", "raised"}
InForward == status \in {"running", "done", "raised"}

\* C1: a graph built from a topology with b bonds, a angles and t propers has
\* b bond nodes, a angle nodes and t torsion nodes; each factor type of arity n
\* has exactly n forward relations, and the relation of slot k holds, for every
\* factor instance i, exactly one edge into i, the edge (tuple_i[k], i).
C1_NodeCountsAndForwardEdges ==
    Constructed =>
        \A factor \in FactorSet :
            LET tuples == TuplesOf(offmol, factor)
            IN  /\ g.num_nodes[factor] = Len(tuples)
                /\ Cardinality({e \in DOMAIN g.edges : e[1] = "atom" /\ e[3] = factor})
                     = Arity(factor)
                /\ \A k \in 0..(Arity(factor) - 1) :
                     LET edges == g.edges[<<"atom", InName(k), factor>>]
                     IN  /\ Len(edges) = Len(tuples)
                         /\ \A i \in 1..Len(tuples) :
                              /\ Cardinality({p \in DOMAIN edges : edges[p][2] = i - 1}) = 1
                              /\ edges[i] = <<tuples[i][k + 1], i - 1>>

C1_Witness ==
    /\ status = "built"
    /\ Len(offmol.bonds) = 2
    /\ Len(offmol.angles) = 1
    /\ Len(offmol.propers) = 0

\* C2: the updated representation an update has just written on the instances
\* of a factor type is the one obtained when the slot order of every tuple is
\* reversed (the graph rebuilt from the reversed tuples, the same current
\* representation, the same weights).
ReversedTopology(mol) ==
    [mol EXCEPT !.bonds = [i \in DOMAIN mol.bonds |-> ReverseSeq(mol.bonds[i])],
                !.angles = [i \in DOMAIN mol.angles |-> ReverseSeq(mol.angles[i])],
                !.propers = [i \in DOMAIN mol.propers |-> ReverseSeq(mol.propers[i])]]

C2_ReflectionInvariance ==
    InForward =>
        LET reversed ==
                [g0 EXCEPT !.edges =
                    offmol_to_heterograph(ReversedTopology(offmol)).graph.edges]
        IN  \A factor \in FactorSet :
                (log # <<>> /\ log[Len(log)] = <<"update", factor, -1>>) =>
                    LET r == UpdateFactor(reversed, net, factor)
                    IN  /\ r.status = "written"
                        /\ NodeData(r.graph, factor, Key(net.updated_repr_name))
                             = NodeData(g, factor, Key(net.updated_repr_name))

C2_Witness ==
    /\ status = "done"
    /\ \A factor \in FactorSet :
         /\ outcome[factor] = "written"
         /\ g.num_nodes[factor] > 0
         /\ NodeData(g, factor, Slotted(net.msg_dest_name, 0)).rows[1]
              # NodeData(g, factor, Slotted(net.msg_dest_name, Arity(factor) - 1)).rows[1]
         /\ \E j \in 1..DefaultUpdatedDim :
              NodeData(g, factor, Key(net.updated_repr_name)).rows[1][j] # 0

\* The widths an update of a factor type is fed in the current call: of the
\* messages gathered from the atoms and of the current representation.
GatheredWidth == Width(NodeData(g0, "atom", Key(net.msg_src_name)))
CurrentWidth(factor) == Width(NodeData(g0, factor, Key(net.current_repr_name)))

UpdatedUntouched(factor) ==
    IF HasNodeData(g0, factor, Key(net.updated_repr_name))
    THEN /\ HasNodeData(g, factor, Key(net.updated_repr_name))
         /\ NodeData(g, factor, Key(net.updated_repr_name))
              = NodeData(g0, factor, Key(net.updated_repr_name))
    ELSE ~HasNodeData(g, factor, Key(net.updated_repr_name))

\* C3 as stated: an update fed a current representation of a width other than
\* the configured one, or gathered messages of a width other than atom_dim,
\* fails with a dimension error and writes no updated representation.
C3_AnyWrongWidthFails ==
    InForward =>
        \A factor \in FactorSet :
            (/\ outcome[factor] \in {"written", "RuntimeError"}
             /\ \/ GatheredWidth # net.atom_dim
                \/ CurrentWidth(factor) # net.initial_factor_dims[factor])
            => /\ outcome[factor] = "RuntimeError"
               /\ UpdatedUntouched(factor)

\* C3 amended: the update of a factor type of arity n whose inputs exist (its
\* msg_dest slots and its current representation) fails with a dimension
\* error, writing no updated representation of that type, exactly when the
\* total width n * gathered + current differs from n * atom_dim + configured
\* current width; when the totals agree it writes the updated representation.
InputsExist(factor) ==
    /\ HasNodeData(g, factor, Key(net.current_repr_name))
    /\ \A k \in 0..(Arity(factor) - 1) :
         HasNodeData(g, factor, Slotted(net.msg_dest_name, k))

C3_TotalWidthDecides ==
    InForward =>
        \A factor \in FactorSet :
            outcome[factor] # "pending" =>
                IF ~InputsExist(factor)
                THEN outcome[factor] = "KeyError" /\ UpdatedUntouched(factor)
                ELSE IF Arity(factor) * GatheredWidth + CurrentWidth(factor)
                          # Arity(factor) * net.atom_dim + net.initial_factor_dims[factor]
                     THEN outcome[factor] = "RuntimeError" /\ UpdatedUntouched(factor)
                     ELSE outcome[factor] = "written"

C3_Witness ==
    /\ status = "raised"
    /\ calls = 1
    /\ outcome["bond"] = "written"
    /\ outcome["angle"] = "RuntimeError"
    /\ GatheredWidth # net.atom_dim
    /\ CurrentWidth("angle") # net.initial_factor_dims["angle"]

\* C4: when a bond, angle or torsion tuple names an atom index the topology
\* has no atom for, the construction fails with an error and returns no graph.
OutOfRange(mol) ==
    \E factor \in FactorSet :
        \E i \in DOMAIN TuplesOf(mol, factor) :
            \E j \in DOMAIN TuplesOf(mol, factor)[i] :
                TuplesOf(mol, factor)[i][j] >= Len(mol.atoms)

C5_ElementOneHotInListOrder ==
    Constructed =>
        /\ NodeData(g, "atom", Key("element")).shape = <<Len(offmol.atoms), 4>>
        /\ \A i \in 1..Len(offmol.atoms) :
             NodeData(g, "atom", Key("element")).rows[i]
               = [j \in 1..4 |-> IF offmol.atoms[i] = <<1, 6, 7, 8>>[j] THEN 1 ELSE 0]

\* C6: get_graph returns None when the trajectory is absent or unreadable, and
\* a graph whenever a trajectory is retrieved, an empty one included.
C6_SkipOrGraph ==
    fetched.outcome # "pending" =>
        IF record.kind \in {"raises", "None"}
        THEN fetched.outcome = "None"
        ELSE fetched.outcome = "graph"

\* C7: in every call of forward, every read of a msg_dest slot of a factor
\* type by its update, and the write of its updated representation, comes
\* after the gather of that type has been done for every slot k below its arity.
C7_GatherBeforeUpdate ==
    InForward =>
        \A p \in DOMAIN log :
            log[p][1] \in {"read", "update"} =>
                \A k \in 0..(Arity(log[p][2]) - 1) :
                    \E q \in 1..(p - 1) : log[q] = <<"gather", log[p][2], k>>

C7_Witness ==
    /\ status = "running"
    /\ \E p \in DOMAIN log : log[p] = <<"read", "torsion", 3>>
    /\ \E p \in DOMAIN log : log[p] = <<"update", "torsion", -1>>

\* C8: the factor types share no state in one call of forward.  Whatever the
\* order the types are taken in, a type whose update was written holds what
\* its gather and update give on the graph the call began with, a type not yet
\* begun holds what it held then, and a call that ends holds the feature
\* table of the call that takes bond, angle, torsion in this order.
Begun(factor) == \E p \in DOMAIN log : log[p][2] = factor

C8_OrderIndependence ==
    InForward =>
        /\ \A factor \in FactorSet :
             /\ outcome[factor] = "written" =>
                  LET r == UpdateFactor(g0, net, factor)
                  IN  r.status = "written" /\ r.graph.ndata[factor] = g.ndata[factor]
             /\ ~Begun(factor) => g.ndata[factor] = g0.ndata[factor]
        /\ status = "done" =>
             LET r == forward(g0, net)
             IN  r.status = "done" /\ r.graph.ndata = g.ndata

C8_Witness ==
    /\ status = "done"
    /\ order = <<"torsion", "angle", "bond">>
    /\ \A factor \in FactorSet : g.num_nodes[factor] > 0

\* C9: a call of forward changes no node count, no edge list and no atom
\* attribute; on factor nodes it writes only msg_dest[k], k below the arity,
\* and the attribute named updated_repr_name, whose value is replaced by a
\* tensor of the updated width; the current representation under another name
\* is left as it was.
C9_Frame ==
    InForward =>
        /\ g.num_nodes = g0.num_nodes
        /\ g.edges = g0.edges
        /\ g.ndata["atom"] = g0.ndata["atom"]
        /\ \A factor \in FactorSet :
             LET written == {Slotted(net.msg_dest_name, k) : k \in 0..(Arity(factor) - 1)}
                              \cup {Key(net.updated_repr_name)}
             IN  /\ DOMAIN g0.ndata[factor] \subseteq DOMAIN g.ndata[factor]
                 /\ DOMAIN g.ndata[factor] \subseteq DOMAIN g0.ndata[factor] \cup written
                 /\ \A key \in DOMAIN g0.ndata[factor] \ written :
                      g.ndata[factor][key] = g0.ndata[factor][key]
                 /\ outcome[factor] = "written" =>
                      NodeData(g, factor, Key(net.updated_repr_name)).shape
                        = <<g0.num_nodes[factor], net.updated_factor_dims[factor]>>
                 /\ net.updated_repr_name # net.current_repr_name =>
                      NodeData(g, factor, Key(net.current_repr_name))
                        = NodeData(g0, factor, Key(net.current_repr_name))

C9_Witness ==
    /\ status = "done"
    /\ calls = 2
    /\ net.updated_repr_name # net.current_repr_name
    /\ HasNodeData(g0, "bond", Key(net.updated_repr_name))
    /\ g.num_nodes["bond"] > 0

\* C10: once the gather has pulled slot k of a factor type, msg_dest[k] of
\* every factor instance i is the sum of msg_src over the atoms with an
\* (atom, in[k], factor) edge into i, which is the msg_src vector of the atom
\* tuple_i[k], whatever msg_dest[k] held before.
RECURSIVE SumOverEdges(_, _, _, _)
SumOverEdges(edges, src, v, positions) ==
    IF positions = {} THEN [j \in 1..Width(src) |-> 0]
    ELSE LET p == CHOOSE x \in positions : TRUE
         IN  VecAdd(IF edges[p][2] = v THEN src.rows[edges[p][1] + 1]
                    ELSE [j \in 1..Width(src) |-> 0],
                    SumOverEdges(edges, src, v, positions \ {p}))

C10_GatherCopiesSlotAtom ==
    InForward =>
        \A p \in DOMAIN log :
            log[p][1] = "gather" =>
                LET factor == log[p][2]
                    k == log[p][3]
                    src == NodeData(g, "atom", Key(net.msg_src_name))
                    dest == NodeData(g, factor, Slotted(net.msg_dest_name, k))
                    edges == g.edges[<<"atom", InName(k), factor>>]
                    tuples == TuplesOf(offmol, factor)
                IN  Len(tuples) > 0 =>
                        /\ HasNodeData(g, factor, Slotted(net.msg_dest_name, k))
                        /\ dest.shape = <<Len(tuples), Width(src)>>
                        /\ \A i \in 1..Len(tuples) :
                             /\ dest.rows[i] = SumOverEdges(edges, src, i - 1, DOMAIN edges)
                             /\ dest.rows[i] = src.rows[tuples[i][k + 1] + 1]

C10_Witness ==
    /\ calls = 2
    /\ log # <<>>
    /\ log[Len(log)] = <<"gather", "torsion", 3>>
    /\ g.num_nodes["torsion"] > 0
    /\ HasNodeData(g0, "torsion", Slotted(net.msg_dest_name, 3))
    /\ \E j \in 1..ATOM_DIM :
         NodeData(g0, "torsion", Slotted(net.msg_dest_name, 3)).rows[1][j] # 0

====
